---- MODULE Spec2Model ----
(***************************************************************************)
(* The hot-reload supervision loop of Fantasmagorie's three Python         *)
(* runners:                                                                *)
(*   "cpp"  src/python/hot_reload_runner.py            (fanta, C++ engine) *)
(*   "rust" vendor/.../python/hot_reload_runner_rust.py (fanta_rust.Context)*)
(*   "win"  vendor/.../python/hot_reload_windowed.py    (render callback)  *)
(* together with the UI scripts they reload (test_ui.py) and the logic     *)
(* file on disk, which the developer's editor changes at any moment.       *)
(***************************************************************************)
EXTENDS Integers, FiniteSets, Sequences, TLC

\* ---- bounds of the model ----
MaxTime == 3      \* modification timestamps are 1..MaxTime
MaxSaves == 2     \* saves of the logic file after startup
MaxFrames == 3    \* frames begun in a run
MaxClicks == 1    \* button clicks counted by test_ui.click_count
MaxOps == 5       \* builder calls in one build, when every sequence is tried

Runners == {"cpp", "rust", "win"}

\* How loading a saved source ends (importlib.reload executes the new source
\* in the namespace of the live module):
\*   "ok"     the whole source runs
\*   "syntax" it does not compile: nothing is executed
\*   "head"   a top-level statement raises after the leading statements
\*            (imports, click_count = 0, ...) ran and before `def render`
\*   "tail"   a top-level statement raises after `def render` ran
LoadKinds == {"ok", "syntax", "head", "tail"}

Versions == 0..MaxSaves
Times == 1..MaxTime

\* The timestamp of the logic file when the runner starts (timestamps are
\* only compared: a later save carries the same one, or a newer one, or one
\* older than that of the save before it).
StartTime == 1

NoAttr == "noattr"            \* render has no attribute text_state
DefaultText == "Type here..." \* vendor test_ui.py line 41
TextVals == {"abc"}           \* what the user may type

NoErr == [origin |-> "none", ver |-> 0]
ReloadErr(v) == [origin |-> "reload", ver |-> v]
RenderErr(v) == [origin |-> "render", ver |-> v]

NoTree == [kind |-> "none", ver |-> 0, err |-> NoErr]
OwnTree(v) == [kind |-> "own", ver |-> v, err |-> NoErr]
PartialTree(v) == [kind |-> "partial", ver |-> v, err |-> NoErr]
FallbackTree(e) == [kind |-> "fallback", ver |-> 0, err |-> e]

\* ---- Tree Builder Protocol (the engine's builder, spec section 4.2) ----
\* A build is the nodes created so far, in order of creation, the stack of
\* open containers (node numbers, top last), the deepest the stack has been,
\* and whether a call failed with UnbalancedScope. A node records its parent
\* (0: none), and for the record which container was on top of the stack and
\* how deep the stack was when it was created, and who created it.
EmptyBuild == [nodes |-> <<>>, stack |-> <<>>, maxDepth |-> 0, err |-> FALSE]

BuilderOps == {"begin", "leaf", "end"}

Max(a, b) == IF a >= b THEN a ELSE b

Top(stack) == IF stack = <<>> THEN 0 ELSE stack[Len(stack)]

\* A mis-attaching builder: every node becomes a child of the outermost open
\* container
ParentOutermost(stack) == IF stack = <<>> THEN 0 ELSE stack[1]

\* The attachment rule: child of the current stack top, root on an empty stack
ParentFor(stack) == Top(stack)

NewNode(b, kind, by) ==
    [parent |-> ParentFor(b.stack), kind |-> kind, top |-> Top(b.stack),
     level |-> Len(b.stack), by |-> by]

\* A node opened at stack depth zero after the frame's first node
SecondRoot(b) == b.stack = <<>> /\ b.nodes # <<>>

\* begin_container: create, attach, push
BeginContainer(b, by) ==
    [nodes |-> Append(b.nodes, NewNode(b, "container", by)),
     stack |-> Append(b.stack, Len(b.nodes) + 1),
     maxDepth |-> Max(b.maxDepth, Len(b.stack) + 1),
     err |-> b.err \/ SecondRoot(b)]

\* leaf: create, attach, no push
Leaf(b, by) ==
    [b EXCEPT !.nodes = Append(b.nodes, NewNode(b, "leaf", by)),
              !.err = b.err \/ SecondRoot(b)]

\* end: pop, UnbalancedScope on an empty stack
EndScope(b) ==
    IF b.stack = <<>>
    THEN [b EXCEPT !.err = TRUE]
    ELSE [b EXCEPT !.stack = SubSeq(b.stack, 1, Len(b.stack) - 1)]

ApplyOp(b, op, by) ==
    CASE op = "begin" -> BeginContainer(b, by)
      [] op = "leaf" -> Leaf(b, by)
      [] OTHER -> EndScope(b)

RECURSIVE RunOps(_, _, _)
RunOps(b, ops, by) ==
    IF ops = <<>> THEN b
    ELSE RunOps(ApplyOp(b, Head(ops), by), Tail(ops), by)

\* End of frame: UnbalancedScope if a call failed or a container is open
FrameEndError(b) == b.err \/ b.stack # <<>>

\* Depth of node n: the nodes on the path from a parentless node to n
RECURSIVE PathDepth(_, _)
PathDepth(b, n) ==
    IF b.nodes[n].parent = 0 THEN 1
    ELSE 1 + PathDepth(b, b.nodes[n].parent)

RECURSIVE MaxOver(_, _, _)
MaxOver(b, n, acc) ==
    IF n = 0 THEN acc ELSE MaxOver(b, n - 1, Max(acc, PathDepth(b, n)))

TreeDepth(b) == MaxOver(b, Len(b.nodes), 0)

Roots(b) == {n \in 1..Len(b.nodes) : b.nodes[n].parent = 0}

RECURSIVE SeqsUpTo(_, _)
SeqsUpTo(S, n) ==
    IF n = 0 THEN {<<>>}
    ELSE LET shorter == SeqsUpTo(S, n - 1)
         IN  shorter \cup {Append(q, x) : q \in shorter, x \in S}

\* The lines a runner prints about a failure
LogLines == {"Watchdog Error", "Reloading", "Reload successful",
             "Reload failed", "Render error"}

\* except clause of the check: `pass` in the C++ runner, a print in the others
WatchdogPrints(r) == IF r = "cpp" THEN {} ELSE {"Watchdog Error"}

\* What is printed around importlib.reload: the C++ runner announces the
\* reload and its except clause passes; the others also print the outcome.
ReloadPrints(r, raises) ==
    IF r = "cpp" THEN {"Reloading"}
    ELSE {"Reloading", IF raises THEN "Reload failed" ELSE "Reload successful"}

\* What is printed when render raises: only render_callback prints
RenderPrints(r) == IF r = "win" THEN {"Render error"} ELSE {}

VARIABLES
    runner,        \* which runner script is running
    pc,            \* position of the runner in its main loop
    file,          \* the logic file on disk: [ver, mtime, load]
    last_mtime,    \* last_mtime / HotReloader.last_mtime
    current_mtime, \* current_mtime of the latest successful read
    module,        \* ui_module: the loaded module's namespace
    error_state,   \* HotReloader.error_state (windowed runner), NoErr = None
    tree,          \* the tree of the latest frame
    begins,        \* calls of begin_frame
    ends,          \* frame-ending calls: end_frame, render_ui
    frame_count,   \* frames started
    checkResult,   \* outcome of this frame's reload check
    renderResult,  \* outcome of this frame's logic execution
    prevRender,    \* outcome of the previous frame's logic execution
    attempts,      \* calls of importlib.reload
    sup,           \* supervisor state: "Watching" or "Degraded"
    prevSup,       \* supervisor state when this frame started
    builder,       \* the engine's build of the current frame
    log,           \* what the runner has printed about errors in this frame
    closing,       \* the engine reports that it should close
    todo           \* builder calls still to make (a build taken alone)

vars == <<runner, pc, file, last_mtime, current_mtime, module, error_state,
          tree, begins, ends, frame_count, checkResult, renderResult,
          prevRender, attempts, sup, prevSup, builder, log, closing,
          todo>>

\* import test_ui: the module as a first import of source f leaves it
ImportModule(f) ==
    [head |-> f.ver, render |-> f.ver, src_mtime |-> f.mtime,
     click_count |-> 0, text_state |-> NoAttr]

\* importlib.reload(ui_module) of source f over the live module m: the
\* statements that run rebind their names in m; `click_count = 0` is a leading
\* statement, and a new `def render` is a new function object, which has no
\* attribute text_state.
ExecModule(m, f) ==
    CASE f.load = "syntax" -> m
      [] f.load = "head" -> [m EXCEPT !.head = f.ver, !.click_count = 0]
      [] OTHER -> ImportModule(f)

ReloadRaises(f) == f.load # "ok"

TypeOK ==
    /\ runner \in Runners
    /\ pc \in {"startup", "head", "read", "decide", "render", "end", "done",
              "crashed", "build", "built"}
    /\ file \in [ver : Versions, mtime : Times, load : LoadKinds]
    /\ last_mtime \in 0..MaxTime
    /\ current_mtime \in 0..MaxTime
    /\ module \in [head : Versions, render : Versions, src_mtime : Times,
                   click_count : 0..MaxClicks,
                   text_state : {NoAttr, DefaultText} \cup TextVals]
    /\ begins \in 0..MaxFrames
    /\ ends \in 0..MaxFrames
    /\ frame_count \in 0..MaxFrames
    /\ attempts \in 0..MaxFrames
    /\ sup \in {"Watching", "Degraded"}
    /\ prevSup \in {"Watching", "Degraded"}
    /\ renderResult \in {"none", "ok", "open", "raised", "skipped"}
    /\ builder.stack \in Seq(1..Len(builder.nodes))
    /\ builder.maxDepth \in 0..Len(builder.nodes)
    /\ log \subseteq LogLines
    /\ closing \in BOOLEAN
    /\ todo \in Seq(BuilderOps)

Init ==
    /\ runner \in Runners
    /\ pc = "startup"
    /\ file = [ver |-> 0, mtime |-> StartTime, load |-> "ok"]
    /\ last_mtime = 0
    /\ current_mtime = 0
    /\ module = ImportModule(file)
    /\ error_state = NoErr
    /\ tree = NoTree
    /\ begins = 0
    /\ ends = 0
    /\ frame_count = 0
    /\ checkResult = "none"
    /\ renderResult = "none"
    /\ prevRender = "none"
    /\ attempts = 0
    /\ sup = "Watching"
    /\ prevSup = "Watching"
    /\ builder = EmptyBuild
    /\ log = {}
    /\ closing = FALSE
    /\ todo = <<>>

\* The developer saves the logic file: new content, some modification time.
\* The runners look at the file in two places, os.path.getmtime and
\* importlib.reload; a save is placed just before one of them (a save made
\* earlier in the loop is seen at the same two places in the same way).
Save ==
    /\ pc \in {"read", "decide"}
    /\ file.ver < MaxSaves
    /\ \E t \in Times, k \in LoadKinds :
          file' = [ver |-> file.ver + 1, mtime |-> t, load |-> k]
    /\ UNCHANGED <<runner, closing, log, pc, last_mtime, current_mtime, module, error_state,
                   tree, begins, ends, frame_count, checkResult, renderResult,
                   prevRender, attempts, sup, prevSup, builder, todo>>

\* Startup of main(): the C++ runner reads the timestamp once (a failed read
\* leaves 0); the Rust runners start from last_mtime = 0.
Startup ==
    /\ pc = "startup"
    /\ pc' = "head"
    /\ \/ /\ runner = "cpp"
          /\ \E readOk \in BOOLEAN :
                last_mtime' = IF readOk THEN file.mtime ELSE 0
       \/ /\ runner \in {"rust", "win"}
          /\ last_mtime' = 0
    /\ UNCHANGED <<runner, closing, log, file, current_mtime, module, error_state, tree,
                   begins, ends, frame_count, checkResult, renderResult,
                   prevRender, attempts, sup, prevSup, builder, todo>>

\* The engine comes to report that it should close. The Rust runner never
\* asks, so there it is an event of the engine alone, between two frames; the
\* other two runners learn it as the answer to their query (StopCpp, StopWin).
CloseRequested ==
    /\ runner = "rust" /\ pc = "head"
    /\ ~closing
    /\ closing' = TRUE
    /\ UNCHANGED <<runner, log, file, last_mtime, current_mtime,
                   module, error_state, tree, begins, ends, frame_count,
                   checkResult, renderResult, prevRender, attempts, sup,
                   prevSup, builder, pc, todo>>

\* A frame that goes to its logic execution without the reload check
StartFrameNoCheck ==
    /\ frame_count < MaxFrames
    /\ frame_count' = frame_count + 1
    /\ prevRender' = renderResult
    /\ prevSup' = sup
    /\ renderResult' = "none"
    /\ checkResult' = "none"
    /\ tree' = NoTree
    /\ builder' = EmptyBuild
    /\ log' = {}
    /\ current_mtime' = 0
    /\ pc' = "render"

\* What every runner does when a frame starts: the frame is counted, its tree
\* is built from nothing and its check has not read a timestamp yet.
StartFrame ==
    /\ frame_count < MaxFrames
    /\ frame_count' = frame_count + 1
    /\ prevRender' = renderResult
    /\ prevSup' = sup
    /\ renderResult' = "none"
    /\ checkResult' = "none"
    /\ tree' = NoTree
    /\ builder' = EmptyBuild
    /\ log' = {}
    /\ current_mtime' = 0
    /\ pc' = "read"

\* C++ runner: `while fanta.running():` then fanta.begin_frame()
BeginFrameCpp ==
    /\ runner = "cpp" /\ pc = "head"
    /\ ~closing
    /\ StartFrame
    /\ begins' = begins + 1
    /\ UNCHANGED <<runner, closing, file, last_mtime, module, error_state, ends,
                   attempts, sup, todo>>

\* C++ runner: fanta.running() is false (the engine reports that it should
\* close), the loop ends
StopCpp ==
    /\ runner = "cpp" /\ pc = "head"
    /\ closing' = TRUE
    /\ pc' = "done"
    /\ UNCHANGED <<runner, log, file, last_mtime, current_mtime, module, error_state,
                   tree, begins, ends, frame_count, checkResult, renderResult,
                   prevRender, attempts, sup, prevSup, builder, todo>>

\* Rust runner: `while True:` ctx.begin_frame(); frame_count += 1
BeginFrameRust ==
    /\ runner = "rust" /\ pc = "head"
    /\ StartFrame
    /\ begins' = begins + 1
    /\ UNCHANGED <<runner, closing, file, last_mtime, module, error_state, ends,
                   attempts, sup, todo>>

\* Windowed runner: the engine's event loop calls render_callback
CallbackWin ==
    /\ runner = "win" /\ pc = "head"
    /\ ~closing
    /\ StartFrame
    /\ UNCHANGED <<runner, closing, file, last_mtime, module, error_state, begins, ends,
                   attempts, sup, todo>>

\* Windowed runner: the window is closed (the engine's loop finds that it
\* should close), fanta.run_window returns
StopWin ==
    /\ runner = "win" /\ pc = "head"
    /\ closing' = TRUE
    /\ pc' = "done"
    /\ UNCHANGED <<runner, log, file, last_mtime, current_mtime, module, error_state,
                   tree, begins, ends, frame_count, checkResult, renderResult,
                   prevRender, attempts, sup, prevSup, builder, todo>>

\* os.path.getmtime(ui_module.__file__): it returns the file's timestamp, or
\* raises (file locked mid-save) and the except clause of the check is taken.
ReadMtime ==
    /\ pc = "read"
    /\ \/ /\ current_mtime' = file.mtime
          /\ pc' = "decide"
          /\ UNCHANGED <<checkResult, log>>
       \/ /\ checkResult' = "readfail"
          /\ pc' = "render"
          /\ log' = log \cup WatchdogPrints(runner)
          /\ UNCHANGED current_mtime
    /\ UNCHANGED <<runner, closing, file, last_mtime, module, error_state, tree, begins,
                   ends, frame_count, renderResult, prevRender, attempts, sup,
                   prevSup, builder, todo>>

\* A check that takes any differing timestamp for a change
ChangedByDifference(cur, last) == cur # last

\* `if current_mtime > last_mtime:`
Changed(cur, last) == cur > last

\* C++ runner lines 43-49: reload and then store the timestamp, both inside
\* one try whose except clause passes.
DecideCpp ==
    /\ runner = "cpp" /\ pc = "decide"
    /\ pc' = "render"
    /\ IF Changed(current_mtime, last_mtime)
       THEN /\ attempts' = attempts + 1
            /\ module' = ExecModule(module, file)
            /\ log' = log \cup ReloadPrints(runner, ReloadRaises(file))
            /\ IF ReloadRaises(file)
               THEN /\ checkResult' = "failed"
                    /\ sup' = "Degraded"
                    /\ UNCHANGED last_mtime
               ELSE /\ checkResult' = "reloaded"
                    /\ sup' = "Watching"
                    /\ last_mtime' = current_mtime
       ELSE /\ checkResult' = "unchanged"
            /\ UNCHANGED <<attempts, module, last_mtime, sup, log>>
    /\ UNCHANGED <<runner, closing, file, current_mtime, error_state, tree, begins, ends,
                   frame_count, renderResult, prevRender, prevSup, builder, todo>>

\* A check_reload that empties error_state at every reload attempt
ErrorClearedByAttempt(r, f, e) == IF r = "win" THEN NoErr ELSE e

\* A check_reload that leaves error_state as it is when the reload succeeds
ErrorKeptAfterReload(r, f, e) ==
    IF r = "win" /\ ReloadRaises(f) THEN ReloadErr(f.ver) ELSE e

\* HotReloader.error_state after a reload attempt (windowed runner only)
ErrorAfterReload(r, f, e) ==
    IF r = "win"
    THEN IF ReloadRaises(f) THEN ReloadErr(f.ver) ELSE NoErr
    ELSE e

\* Rust runner lines 43-51 and HotReloader.check_reload lines 32-42: the
\* reload has its own try, and last_mtime = current_mtime follows it.
DecideRust ==
    /\ runner \in {"rust", "win"} /\ pc = "decide"
    /\ pc' = "render"
    /\ IF Changed(current_mtime, last_mtime)
       THEN /\ IF last_mtime # 0
               THEN /\ attempts' = attempts + 1
                    /\ module' = ExecModule(module, file)
                    /\ error_state' = ErrorAfterReload(runner, file, error_state)
                    /\ log' = log \cup ReloadPrints(runner, ReloadRaises(file))
                    /\ IF ReloadRaises(file)
                       THEN checkResult' = "failed" /\ sup' = "Degraded"
                       ELSE checkResult' = "reloaded" /\ sup' = "Watching"
               ELSE /\ checkResult' = "adopted"
                    /\ UNCHANGED <<attempts, module, error_state, sup, log>>
            /\ last_mtime' = current_mtime
       ELSE /\ checkResult' = "unchanged"
            /\ UNCHANGED <<attempts, module, error_state, last_mtime, sup, log>>
    /\ UNCHANGED <<runner, closing, file, current_mtime, tree, begins, ends, frame_count,
                   renderResult, prevRender, prevSup, builder, todo>>

\* src/python/test_ui.py lines 32-33: a clicked button counts
ClickAfterRender(n, clicked) ==
    IF clicked /\ n < MaxClicks THEN n + 1 ELSE n

\* vendor test_ui.py lines 40-44: default on a missing attribute, then the
\* text input's value (what was there, or what the user typed)
TextAfterRender(ts, typed) ==
    LET shown == IF ts = NoAttr THEN DefaultText ELSE ts
    IN  IF typed = "" THEN shown ELSE typed

\* The modules a run of render can leave behind: one per user input when it
\* returns; when it raises, it raised before or after its state statements.
RenderReturns(r, m) ==
    IF r = "cpp"
    THEN {[m EXCEPT !.click_count = ClickAfterRender(m.click_count, clicked)] :
             clicked \in BOOLEAN}
    ELSE {[m EXCEPT !.text_state = TextAfterRender(m.text_state, typed)] :
             typed \in {""} \cup TextVals}

RenderRaises(r, m) == {m} \cup RenderReturns(r, m)

\* What render builds before it returns: a closed Column with a leaf, or a
\* Column that is still open at the return.
ReturnBuilds == {<<"begin", "leaf", "end">>, <<"begin", "leaf">>}

\* What render has built when it raises: nothing yet, or two containers opened
\* and not closed.
RaiseBuilds == {<<>>, <<"begin", "begin">>}

\* The error screen of each runner: Column, its Text leaves (and the Box
\* spacer of the C++ runner, which the runner does not end), End
FallbackOps(r) ==
    IF r = "win" THEN <<"begin", "leaf", "leaf", "end">>
    ELSE <<"begin", "leaf", "leaf", "leaf", "end">>

UserBuild(ops) == RunOps(EmptyBuild, ops, "user")

\* The except branch builds the error screen with the same builder calls, on
\* whatever the failed logic left in the builder.
FallbackBuild(r, b) == RunOps(b, FallbackOps(r), "host")

\* render returned: "ok", or "open" when it left a container open
ReturnResult(b) == IF b.stack = <<>> THEN "ok" ELSE "open"

\* C++ runner lines 52-70: render and fanta.render_ui, or the emergency UI
\* and fanta.render_ui. A render_ui that fails inside the try is handled like
\* a failure of render; one that fails inside the except clause ends main().
RenderCpp ==
    /\ runner = "cpp" /\ pc = "render"
    /\ \/ \E ops \in ReturnBuilds :
             LET b == UserBuild(ops)
                 fb == FallbackBuild(runner, b)
             IN  /\ module' \in RenderReturns(runner, module)
                 /\ renderResult' = ReturnResult(b)
                 /\ IF ~FrameEndError(b)
                    THEN /\ builder' = b
                         /\ tree' = OwnTree(module.render)
                         /\ pc' = "head" /\ ends' = ends + 1
                    ELSE /\ builder' = fb
                         /\ IF ~FrameEndError(fb)
                            THEN /\ tree' = FallbackTree(RenderErr(module.render))
                                 /\ pc' = "head" /\ ends' = ends + 1
                            ELSE /\ tree' = NoTree
                                 /\ pc' = "crashed" /\ UNCHANGED ends
       \/ \E ops \in RaiseBuilds :
             LET fb == FallbackBuild(runner, UserBuild(ops))
             IN  /\ module' \in RenderRaises(runner, module)
                 /\ renderResult' = "raised"
                 /\ builder' = fb
                 /\ IF ~FrameEndError(fb)
                    THEN /\ tree' = FallbackTree(RenderErr(module.render))
                         /\ pc' = "head" /\ ends' = ends + 1
                    ELSE /\ tree' = NoTree
                         /\ pc' = "crashed" /\ UNCHANGED ends
    /\ UNCHANGED <<runner, closing, log, file, last_mtime, current_mtime, error_state, begins,
                   frame_count, checkResult, prevRender, attempts, sup, prevSup,
                   todo>>

\* Rust runner lines 56-68: render, or the Red Screen of Death.
RenderRust ==
    /\ runner = "rust" /\ pc = "render"
    /\ pc' = "end"
    /\ \/ \E ops \in ReturnBuilds :
             /\ module' \in RenderReturns(runner, module)
             /\ builder' = UserBuild(ops)
             /\ tree' = OwnTree(module.render)
             /\ renderResult' = ReturnResult(builder')
       \/ \E ops \in RaiseBuilds :
             /\ module' \in RenderRaises(runner, module)
             /\ builder' = FallbackBuild(runner, UserBuild(ops))
             /\ tree' = FallbackTree(RenderErr(module.render))
             /\ renderResult' = "raised"
    /\ UNCHANGED <<runner, closing, log, file, last_mtime, current_mtime, error_state, begins,
                   ends, frame_count, checkResult, prevRender, attempts, sup,
                   prevSup, todo>>

\* Rust runner lines 70-77: ctx.end_frame(), then the pacing sleep. The call
\* is outside every try but the one for KeyboardInterrupt: if it fails, the
\* exception leaves main().
EndFrameRust ==
    /\ runner = "rust" /\ pc = "end"
    /\ IF ~FrameEndError(builder)
       THEN pc' = "head" /\ ends' = ends + 1 /\ UNCHANGED tree
       ELSE pc' = "crashed" /\ tree' = NoTree /\ UNCHANGED ends
    /\ UNCHANGED <<runner, closing, log, file, last_mtime, current_mtime, module, error_state,
                   begins, frame_count, checkResult, renderResult,
                   prevRender, attempts, sup, prevSup, builder, todo>>

\* render_callback lines 56-67: the error screen while error_state is set,
\* else render, whose failure is stored in error_state. The frame is ended by
\* the engine's own loop, after the callback returns.
RenderWin ==
    /\ runner = "win" /\ pc = "render"
    /\ pc' = "head"
    /\ IF error_state # NoErr
       THEN /\ tree' = FallbackTree(error_state)
            /\ builder' = FallbackBuild(runner, EmptyBuild)
            /\ renderResult' = "skipped"
            /\ UNCHANGED <<module, error_state, log>>
       ELSE \/ \E ops \in ReturnBuilds :
                  /\ module' \in RenderReturns(runner, module)
                  /\ builder' = UserBuild(ops)
                  /\ tree' = OwnTree(module.render)
                  /\ renderResult' = ReturnResult(builder')
                  /\ UNCHANGED <<error_state, log>>
            \/ \E ops \in RaiseBuilds :
                  /\ module' \in RenderRaises(runner, module)
                  /\ builder' = UserBuild(ops)
                  /\ error_state' = RenderErr(module.render)
                  /\ tree' = PartialTree(module.render)
                  /\ log' = log \cup RenderPrints(runner)
                  /\ renderResult' = "raised"
    /\ UNCHANGED <<runner, closing, file, last_mtime, current_mtime, begins, ends,
                   frame_count, checkResult, prevRender, attempts, sup, prevSup,
                   todo>>

\* Ctrl+C in the Rust runner: KeyboardInterrupt is raised where the loop is
\* (`except Exception` does not catch it) and is caught around the loop,
\* line 79, which ends main(). It arrives between two frames (the sleep of
\* line 77) or inside one (the call of render); the handler is the same
\* wherever inside the frame it arrives.
Interrupt ==
    /\ runner = "rust"
    /\ pc \in {"head", "render"}
    /\ pc' = "done"
    /\ UNCHANGED <<runner, closing, log, file, last_mtime, current_mtime, module, error_state,
                   tree, begins, ends, frame_count, checkResult, renderResult,
                   prevRender, attempts, sup, prevSup, builder, todo>>

\* ---- what the claims speak of ----

\* The frame's logic-execution step is about to run
AtLogicExecution == pc = "render"

\* The loaded module is one version in full
WholeUnit(m) == m.head = m.render

\* The frame's render step is over
Rendered == renderResult # "none"

\* The logic was executed in this frame (and returned or raised)
Executed == renderResult \in {"ok", "open", "raised"}

\* What the script reads back as its stored text: the hasattr test of
\* vendor test_ui.py lines 40-41
StoredText(m) == IF m.text_state = NoAttr THEN DefaultText ELSE m.text_state

\* C1 (as claimed): at every logic-execution step the active executable unit
\* is one version in full and the stored timestamp is that version's: never
\* old code with a new timestamp, new code with an old one, or a partly
\* replaced unit.
C1_Atomicity ==
    AtLogicExecution =>
        /\ WholeUnit(module)
        /\ last_mtime # 0 => last_mtime = module.src_mtime

\* C2 (as claimed): between iterations and whenever the loop has stopped,
\* by the engine closing or by an interrupt, begin_frame and the frame-ending
\* call were called equally often: no frame is left open.
C2_FrameBalance ==
    pc \in {"head", "done"} => begins = ends

\* C3 (as claimed): in a frame whose logic execution raised, the tree handed
\* to the engine is the Crash Isolation fallback tree with that error's detail.
C3_CrashIsolation ==
    renderResult = "raised" =>
        /\ tree.kind = "fallback"
        /\ tree.err = RenderErr(module.render)

\* C4 (as claimed): in the frame after one whose logic execution raised, the
\* logic is executed again, no file change needed, and when it succeeds the
\* error state is clear and the logic's own tree is shown.
C4_RenderErrorNotSticky ==
    (prevRender = "raised" /\ Rendered) =>
        /\ Executed
        /\ renderResult = "ok" => (error_state = NoErr /\ tree.kind = "own")

\* C5 (as claimed): a failed reload keeps the unit that was active and stores
\* the failed save's timestamp, so that no further attempt is made while the
\* file keeps that timestamp.
C5_FailedReloadStoresTimestamp ==
    [][(pc = "decide" /\ checkResult' = "failed") =>
           (module' = module /\ last_mtime' = current_mtime)]_vars

\* C6 (as claimed), scenario B: the frame in which a reload failed shows the
\* fallback tree with the reload error, and on the frames after it, until the
\* next save is detected, the logic that was active is executed.
C6_ScenarioB ==
    /\ (checkResult = "failed" /\ Rendered) =>
           (tree.kind = "fallback" /\ tree.err.origin = "reload")
    /\ (prevSup = "Degraded" /\ checkResult \in {"unchanged", "readfail"}
            /\ Rendered) => Executed

\* C7, scenario C: a detected save that loads successfully from Degraded
\* takes the supervisor back to Watching, clears the stored reload error and
\* makes the saved version the whole active unit; in that frame the new logic
\* is executed (the error screen of the failed reload is not shown again), and
\* the frame's tree is the new logic's own output when its execution returns.
C7_ReloadedFrame ==
    (prevSup = "Degraded" /\ checkResult = "reloaded") =>
        /\ sup = "Watching"
        /\ WholeUnit(module)
        /\ AtLogicExecution => error_state = NoErr
        /\ Rendered => Executed
        /\ renderResult = "ok" => tree = OwnTree(module.render)
        /\ tree.kind = "fallback" => tree.err = RenderErr(module.render)

C7_ReloadStep ==
    (pc = "decide" /\ sup = "Degraded" /\ checkResult' = "reloaded") =>
        /\ module'.render = file.ver
        /\ module'.head = file.ver
        /\ error_state' = NoErr
        /\ sup' = "Watching"

C7_ScenarioC == [](C7_ReloadedFrame) /\ [][C7_ReloadStep]_vars

\* C7 witness: the windowed runner, degraded by a failed reload, has reloaded
\* a valid save and shown the new logic's tree.
C7_Witness ==
    /\ runner = "win"
    /\ prevSup = "Degraded"
    /\ checkResult = "reloaded"
    /\ renderResult = "ok"
    /\ tree = OwnTree(module.render)
    /\ module.render = file.ver

\* C8 (as claimed): a successful reload leaves every persisted value as it
\* was: the click counter, and the text the script reads back.
C8_StateSurvivesReload ==
    [][(pc = "decide" /\ checkResult' = "reloaded") =>
           /\ module'.click_count = module.click_count
           /\ StoredText(module') = StoredText(module)]_vars

\* C9 (as claimed), scenario A: while the file has not been saved since
\* startup no reload is attempted and the supervisor stays in Watching,
\* whichever timestamp reads failed.
C9_ScenarioA ==
    file.ver = 0 => (attempts = 0 /\ sup = "Watching")

\* C10 (as claimed): a frame whose timestamp read failed changes neither the
\* unit, the stored timestamp nor the error state in its check, and still
\* executes the logic.
C10_ReadFailureStep ==
    (pc = "read" /\ checkResult' = "readfail") =>
        /\ module' = module
        /\ last_mtime' = last_mtime
        /\ error_state' = error_state
        /\ attempts' = attempts

C10_TransientReadFailure ==
    /\ [][C10_ReadFailureStep]_vars
    /\ []((checkResult = "readfail" /\ Rendered) => Executed)

\* ---- a build taken alone: any sequence of builder calls in one frame ----

BuilderInit ==
    /\ pc = "build"
    /\ todo \in SeqsUpTo(BuilderOps, MaxOps)
    /\ builder = EmptyBuild
    /\ runner = "rust"
    /\ file = [ver |-> 0, mtime |-> StartTime, load |-> "ok"]
    /\ module = ImportModule(file)
    /\ last_mtime = 0 /\ current_mtime = 0
    /\ error_state = NoErr /\ tree = NoTree
    /\ begins = 1 /\ ends = 0 /\ frame_count = 1 /\ attempts = 0
    /\ checkResult = "none" /\ renderResult = "none" /\ prevRender = "none"
    /\ sup = "Watching" /\ prevSup = "Watching"
    /\ log = {} /\ closing = FALSE

\* The next call of the sequence is made
BuildCall ==
    /\ pc = "build" /\ todo # <<>>
    /\ builder' = ApplyOp(builder, Head(todo), "user")
    /\ todo' = Tail(todo)
    /\ UNCHANGED <<runner, pc, file, last_mtime, current_mtime, module,
                   error_state, tree, begins, ends, frame_count, checkResult,
                   renderResult, prevRender, attempts, sup, prevSup, log,
                   closing>>

\* The calls are over: the frame ends
BuildDone ==
    /\ pc = "build" /\ todo = <<>>
    /\ pc' = "built"
    /\ UNCHANGED <<runner, file, last_mtime, current_mtime, module,
                   error_state, tree, begins, ends, frame_count, checkResult,
                   renderResult, prevRender, attempts, sup, prevSup, log,
                   closing, builder, todo>>

BuilderNext ==
    \/ BuildCall
    \/ BuildDone

BuilderSpec == BuilderInit /\ [][BuilderNext]_vars

\* A balanced sequence was run: no call failed (every end matched an earlier
\* begin_container, one node at depth zero) and the stack is empty at the end
Balanced(b) == ~b.err /\ b.stack = <<>> /\ b.nodes # <<>>

NodeIds(b) == 1..Len(b.nodes)

\* Every node hangs, through its parents, under the container that was on
\* top of the stack when it was created
NoOrphans(b) ==
    \A n \in NodeIds(b) :
        /\ b.nodes[n].parent = b.nodes[n].top
        /\ b.nodes[n].parent # 0 => b.nodes[b.nodes[n].parent].kind = "container"
        /\ PathDepth(b, n) = b.nodes[n].level + 1

\* A leaf was created while the stack was at its deepest
LeafAtMax(b) ==
    \E n \in NodeIds(b) :
        b.nodes[n].kind = "leaf" /\ b.nodes[n].level = b.maxDepth

\* C14 (as claimed): after a balanced sequence the tree has one root, no
\* orphans, and its depth is the maximum stack depth reached.
C14_DepthIsMaxStackDepth ==
    (pc = "built" /\ Balanced(builder)) =>
        /\ Roots(builder) = {1}
        /\ NoOrphans(builder)
        /\ TreeDepth(builder) = builder.maxDepth

\* C14 (amended): after a balanced sequence the tree has one root, no orphans,
\* and its depth, counted in nodes from the root, is the maximum stack depth
\* reached, plus one when a leaf was created inside a deepest container.
C14_ScopeBalance ==
    (pc = "built" /\ Balanced(builder)) =>
        /\ Roots(builder) = {1}
        /\ NoOrphans(builder)
        /\ TreeDepth(builder) =
              builder.maxDepth + (IF LeafAtMax(builder) THEN 1 ELSE 0)

\* C14 witness: Column { Column { Text } } was built and the frame is over
C14_Witness ==
    /\ pc = "built" /\ Balanced(builder)
    /\ Len(builder.nodes) = 3
    /\ builder.maxDepth = 2
    /\ TreeDepth(builder) = 3

\* A container opened by the user logic is still open
UserOpen(b) ==
    \E i \in 1..Len(b.stack) : b.nodes[b.stack[i]].by = "user"

\* The frame is over: the loop is back at its head, or the process has ended
\* on an uncaught exception
FrameOver == Rendered /\ pc \in {"head", "crashed"}

\* C11 (Scenario D): whenever the logic execution of a frame ended with a
\* container of its own still open (it raised mid-build, or it returned), the
\* frame's tree is the Crash Isolation tree and the loop goes on to the next
\* iteration.
C11_ScenarioD ==
    (FrameOver /\ Executed /\ UserOpen(builder)) =>
        /\ pc = "head"
        /\ tree.kind = "fallback"

\* C12 (no silent failure): a failed reload and a failed logic execution are
\* each logged in their frame and shown in the UI of their frame.
C12_NoSilentFailure ==
    /\ checkResult = "failed" =>
          /\ "Reload failed" \in log
          /\ FrameOver => tree.kind = "fallback"
    /\ renderResult = "raised" =>
          /\ "Render error" \in log
          /\ FrameOver => tree.kind = "fallback"

\* C13 (cooperative stop): once the engine reports that it should close, no
\* further frame is begun, and the loop can only end.
C13_Step ==
    closing =>
        /\ begins' = begins
        /\ frame_count' = frame_count
        /\ pc' \in {pc, "done"}

C13_CooperativeStop == [][C13_Step]_vars

\* The check of this step compares the timestamp it read with a stored one
\* (0 is no stored timestamp yet: the Rust runners' first check only stores)
ComparesTimestamps == pc = "decide" /\ pc' = "render" /\ last_mtime # 0

\* C15 (change detection by difference): a read timestamp that differs from
\* the stored one, newer or older, triggers a reload attempt; only an equal
\* one yields Unchanged.
C15_Step ==
    ComparesTimestamps =>
        /\ (current_mtime # last_mtime) <=> (attempts' = attempts + 1)
        /\ (current_mtime = last_mtime) <=> (checkResult' = "unchanged")

C15_ChangeByDifference == [][C15_Step]_vars

\* The frame is between its begin and its end
InFrame == pc \in {"read", "decide", "render", "end"}

\* The executable unit is replaced in this step
UnitReplaced == module'.head # module.head \/ module'.render # module.render

\* C16 (ordering inside a frame), the states: logic execution starts and ends
\* with the frame's check done, the check and the logic execution lie between
\* begin_frame and the frame's end, and what the frame shows of the logic (its
\* tree, its partial tree, its error) is of the unit active after the check.
C16_Frame ==
    /\ AtLogicExecution => checkResult # "none"
    /\ Rendered => checkResult # "none"
    /\ (InFrame /\ runner # "win") => begins = ends + 1
    /\ tree.kind \in {"own", "partial"} => tree.ver = module.render
    /\ (tree.kind = "fallback" /\ renderResult = "raised") =>
          tree.err = RenderErr(module.render)

\* C16, the steps: the check gives its result once in a frame, before the
\* logic execution, and the unit is replaced only by that check.
C16_Step ==
    /\ checkResult' # checkResult =>
          \/ pc = "head" /\ checkResult' = "none"
          \/ checkResult = "none" /\ pc \in {"read", "decide"} /\ pc' = "render"
    /\ UnitReplaced =>
          /\ pc = "decide" /\ checkResult = "none"
          /\ checkResult' \in {"reloaded", "failed"}

C16_Ordering == [](C16_Frame) /\ [][C16_Step]_vars

\* C16 witness: the C++ runner has reloaded a save in this frame and shown
\* the tree of the new unit.
C16_Witness ==
    /\ runner = "cpp"
    /\ checkResult = "reloaded"
    /\ renderResult = "ok"
    /\ module.render = file.ver /\ file.ver > 0
    /\ tree = OwnTree(file.ver)

\* The key text_state is in the store (render has the attribute)
Present(m) == m.text_state # NoAttr

\* C17 (default on first use only): a key that is present stays present, so
\* its default is inserted at most once, and the stored value is changed by
\* nothing but the logic execution itself, so the value written in one frame
\* is the value read in the next.
C17_Step ==
    /\ Present(module) => Present(module')
    /\ pc # "render" => module'.text_state = module.text_state

C17_DefaultOnFirstUse == [][C17_Step]_vars

\* The build is one closed container, made by the runner, holding leaves
\* only (the title, the error text), at least two of them
ErrorScreenShape(b) ==
    /\ Len(b.nodes) >= 3
    /\ b.stack = <<>> /\ ~b.err
    /\ b.nodes[1].kind = "container" /\ b.nodes[1].parent = 0
    /\ \A n \in NodeIds(b) : b.nodes[n].by = "host"
    /\ \A n \in 2..Len(b.nodes) :
          b.nodes[n].kind = "leaf" /\ b.nodes[n].parent = 1

\* C18 (fixed-shape fallback): whenever the frame's tree is the error screen,
\* it shows the error state alone and the build is one container that the
\* runner opened and closed around its leaves: no node of the failed logic is
\* in it and it hangs under no container that logic left open.
C18_FixedShapeFallback ==
    tree.kind = "fallback" =>
        /\ tree = FallbackTree(tree.err) /\ tree.err # NoErr
        /\ ErrorScreenShape(builder)

\* C19 (stored timestamp): last_mtime never decreases; when it changes, it
\* becomes the timestamp just read (by the check of this frame, or by the
\* C++ runner at startup), so it never exceeds the largest timestamp read; a
\* failed read and an unchanged timestamp leave it as it was.
C19_Step ==
    /\ last_mtime' >= last_mtime
    /\ last_mtime' # last_mtime =>
          \/ pc = "decide" /\ last_mtime' = current_mtime
          \/ pc = "startup" /\ runner = "cpp" /\ last_mtime' = file.mtime
    /\ checkResult' \in {"readfail", "unchanged"} => last_mtime' = last_mtime

C19_StoredTimestamp == [][C19_Step]_vars

\* C19 witness: a timestamp older than the stored one was read, and the
\* check left the stored one as it was.
C19_Witness ==
    /\ pc = "render"
    /\ checkResult = "unchanged"
    /\ current_mtime # 0
    /\ current_mtime < last_mtime

\* The windowed runner's render step: render_callback after its check
RenderStepWin == runner = "win" /\ pc = "render" /\ pc' = "head"

\* C20 (windowed runner), the steps: render is invoked if and only if
\* error_state is empty after the frame's check, the error screen shows
\* error_state otherwise, and error_state is emptied only by a successful
\* reload, which the check makes only on a timestamp newer than the stored one.
C20_Step ==
    /\ RenderStepWin =>
          /\ renderResult' \in {"ok", "open", "raised"} <=> error_state = NoErr
          /\ error_state # NoErr =>
                /\ renderResult' = "skipped"
                /\ tree' = FallbackTree(error_state)
                /\ module' = module
    /\ (runner = "win" /\ error_state # NoErr /\ error_state' = NoErr) =>
          /\ pc = "decide" /\ checkResult' = "reloaded"
          /\ current_mtime > last_mtime

\* C20, the frames: after a frame that failed or showed the error screen,
\* every frame whose check did not reload shows the error screen.
C20_Frame ==
    (runner = "win" /\ Rendered /\ prevRender \in {"raised", "skipped"}
        /\ checkResult # "reloaded") =>
            /\ renderResult = "skipped"
            /\ tree = FallbackTree(error_state) /\ error_state # NoErr

C20_ErrorScreenUntilReload == [](C20_Frame) /\ [][C20_Step]_vars

\* C20 witness: the error screen was shown in two frames in a row with no
\* change of the file seen in between.
C20_Witness ==
    /\ runner = "win"
    /\ prevRender = "skipped"
    /\ renderResult = "skipped"
    /\ checkResult = "unchanged"
    /\ tree = FallbackTree(error_state)

\* ---- the shipped UI scripts, each render() taken alone ----

\* The calls of fanta / fanta_rust that create a node, by what they do to the
\* scope stack
ContainerKinds == {"Column", "Row", "Scroll", "Splitter"}

LeafKinds == {"Text", "Box", "Button", "Image", "Slider", "Toggle",
              "TextInput", "Bezier", "ColorPicker", "DrawPath"}

OpOf(call) ==
    CASE call = "End" -> "end"
      [] call \in ContainerKinds -> "begin"
      [] OTHER -> "leaf"

\* The body of a `for` loop, n times over
RECURSIVE Repeat(_, _)
Repeat(n, calls) == IF n = 0 THEN <<>> ELSE calls \o Repeat(n - 1, calls)

\* vendor/fantasmagorierust/python/test_ui.py, render(width, height): the
\* node-creating calls in the order a run to completion makes them (no call
\* sits under a condition; `with X():` is X() on entry and End() on exit)
VendorTestUI ==
    <<"Column", "Text", "Box">>                                \* 8-11
    \o <<"Text", "Slider", "Box">>                             \* 14-28
    \o <<"Text", "Toggle", "Box">>                             \* 31-34
    \o <<"Text", "TextInput", "Text", "Box">>                  \* 37-48
    \o <<"Text", "Column", "Text", "Text", "Text", "Text", "End">> \* 51-62
    \o <<"Text", "Bezier", "Image">>                           \* 65-73
    \o <<"Text", "Splitter", "Box", "Box", "End", "Box">>      \* 79-95
    \o <<"Text", "ColorPicker", "Box", "Text">>                \* 101-109
    \o <<"Column", "Button", "Text", "Box", "Box", "End">>     \* 112-121
    \o <<"Scroll", "Column">>                                  \* 127-128
    \o Repeat(20, <<"Text">>)                                  \* 129-131
    \o <<"End", "End">>                                        \* 132-133
    \o <<"Column", "Text", "Text">>                            \* 136-138
    \o <<"Box", "Text">>                                       \* 140-141
    \o <<"Box", "Text", "DrawPath", "DrawPath">>               \* 152-163
    \o <<"Box", "Text", "Button", "Box", "Box">>               \* 166-177
    \o <<"Box", "Text", "Text", "Button", "Button", "Button">> \* 185-200
    \o <<"Box", "Text", "Button", "Box">>                      \* 203-211
    \o <<"Row", "Text", "Text", "Text", "Text", "End">>        \* 214-219
    \o <<"Box", "Text", "TextInput">>                          \* 221-228
    \o <<"End">>                                               \* 231

\* src/python/test_ui.py, render()
CppTestUI ==
    <<"Column">>                                               \* 17
    \o <<"Row", "Text", "End">>                                \* 20-22
    \o <<"Scroll">>                                            \* 24
    \o Repeat(10, <<"Box", "Row", "Text", "Button", "End", "End">>) \* 26-37
    \o <<"End">>                                               \* 39
    \o <<"Row", "Text", "End">>                                \* 42-44
    \o <<"End">>                                               \* 46

\* The script a runner imports as test_ui
ScriptOf(r) == IF r = "cpp" THEN CppTestUI ELSE VendorTestUI

ScriptOps(r) == [i \in 1..Len(ScriptOf(r)) |-> OpOf(ScriptOf(r)[i])]

ScriptInit ==
    /\ runner \in Runners
    /\ pc = "build"
    /\ todo = ScriptOps(runner)
    /\ builder = EmptyBuild
    /\ file = [ver |-> 0, mtime |-> StartTime, load |-> "ok"]
    /\ module = ImportModule(file)
    /\ last_mtime = 0 /\ current_mtime = 0
    /\ error_state = NoErr /\ tree = NoTree
    /\ begins = 1 /\ ends = 0 /\ frame_count = 1 /\ attempts = 0
    /\ checkResult = "none" /\ renderResult = "none" /\ prevRender = "none"
    /\ sup = "Watching" /\ prevSup = "Watching"
    /\ log = {} /\ closing = FALSE

\* The next frame: the runner begins a frame and calls render() again
ScriptFrame ==
    /\ pc = "built"
    /\ frame_count < MaxFrames
    /\ pc' = "build"
    /\ frame_count' = frame_count + 1
    /\ begins' = begins + 1
    /\ builder' = EmptyBuild
    /\ todo' = ScriptOps(runner)
    /\ UNCHANGED <<runner, file, last_mtime, current_mtime, module,
                   error_state, tree, ends, checkResult, renderResult,
                   prevRender, attempts, sup, prevSup, log, closing>>

ScriptNext ==
    \/ BuildCall
    \/ BuildDone
    \/ ScriptFrame

ScriptSpec == ScriptInit /\ [][ScriptNext]_vars

\* C21: a run to completion of render() of each shipped UI script is a
\* well-formed build, on every frame: with Column, Row, Scroll, Splitter (and
\* the `with` form) pushing and Text, Box, Button, Image, ... not pushing,
\* End() is never called on an empty scope stack, and the stack is empty when
\* render returns.
C21_ShippedScriptsWellFormed ==
    /\ (pc = "build" /\ todo # <<>> /\ Head(todo) = "end")
          => builder.stack # <<>>
    /\ pc = "built" => builder.stack = <<>>

Next ==
    \/ Save
    \/ CloseRequested
    \/ Startup
    \/ BeginFrameCpp
    \/ StopCpp
    \/ BeginFrameRust
    \/ CallbackWin
    \/ StopWin
    \/ ReadMtime
    \/ DecideCpp
    \/ DecideRust
    \/ RenderCpp
    \/ RenderRust
    \/ EndFrameRust
    \/ RenderWin
    \/ Interrupt

Spec == Init /\ [][Next]_vars
====
